---- MODULE Spec2Model ----
(***************************************************************************)
(* The open-world presence server of world/example-server.js: the room    *)
(* registry (worlds), the per-connection handlers (connection,            *)
(* player:move, chat:message, player:interact, player:emote, disconnect),  *)
(* the movement validator, the rate limiter                                *)
(* and the periodic stale-player sweep.                                   *)
(*                                                                         *)
(* Node runs every handler to completion, so each handler is one action.  *)
(* A JavaScript Map is a function whose DOMAIN is its key set; a world    *)
(* (Map userId -> player) is kept as the sequence of its players in       *)
(* insertion order, which is the order Array.from(world.values()) gives.  *)
(* World Maps are objects: the registry and every connection's closure    *)
(* hold a reference (an index of heap), not a copy.                       *)
(***************************************************************************)
EXTENDS Integers, Sequences, FiniteSets, TLC

\* ---------------------------------------------------------------- bounds
MaxConns == 3      \* sockets that ever connect; socket ids are 1..MaxConns
MaxUsers == 2      \* distinct non-empty userIds
MaxWorlds == 1     \* distinct non-empty worldIds
MaxMoves == 3      \* player:move messages that ever arrive
MaxTicks == 2      \* how many times the clock is advanced
StartTime == 1000  \* Date.now() when the process starts
MaxSilentUsers == 3  \* distinct userIds among clients that never send
MaxRooms == 2      \* distinct worldIds where users may be in several worlds
WalkSteps == 34    \* moves and clock advances a walking client is given
\* 50 in the source; scaled to the model's population of users
MAX_PLAYERS_PER_WORLD == 2

\* ------------------------------------------------------ program constants
UPDATE_RATE_LIMIT == 50
MAX_SPEED == 15
STALE_AFTER == 300000
SWEEP_PERIOD == 300000
SPAWN_X == 500
SPAWN_Y == 500
WORLD_WIDTH == 1000
WORLD_HEIGHT == 1000
\* usePlayerMovement: speed, the interval period and the send throttle
HOOK_SPEED == 5
TICK_MS == 16
SEND_THROTTLE == 50
\* the socket of the client that runs the hook
HookSocket == 1

Conns == 1..MaxConns
NoId == 0                       \* a missing or empty handshake field (falsy)
UserIds == 1..MaxUsers
WorldIds == 1..MaxWorlds
NoName == ""
\* the display name the authenticating layer hands over for a user: the
\* first user has none, the others have one
UsernameOf(userId) == IF userId = 1 THEN NoName ELSE "name" \o ToString(userId)
\* the amounts of time that may pass between two events
Deltas == {10, 50, STALE_AFTER}

SpawnPosition == [x |-> SPAWN_X, y |-> SPAWN_Y]
\* positions a client may propose: 15 from spawn, 1.4 from the former
\* (and 16.4 from spawn), 100 from spawn, and spawn itself
Near == [x |-> 509, y |-> 512]
Nearer == [x |-> 510, y |-> 513]
Far == [x |-> 600, y |-> 500]
Upd(p, dir, moving) ==
  [position |-> p, direction |-> dir, isMoving |-> moving, timestamp |-> 7]
\* the player:move payloads clients send (timestamp is the client's clock)
Updates ==
  { Upd(Near, "left", TRUE), Upd(Nearer, "up", TRUE),
    Upd(SpawnPosition, "down", FALSE), Upd(Far, "right", TRUE) }
NoUpdate ==
  [position |-> SpawnPosition, direction |-> "down", isMoving |-> FALSE,
   timestamp |-> 0]

VARIABLES
  now,          \* Date.now()
  ticks,        \* how often the clock has advanced
  moves,        \* how many player:move messages have arrived
  nextSweep,    \* when the setInterval callback is next due
  worlds,       \* worldId -> reference to a world Map
  heap,         \* reference -> world Map (sequence of players)
  userSockets,  \* userId -> socketId
  rateLimits,   \* socketId -> lastUpdateTime
  conns,        \* per socket: status and the closure of its handlers
  out,          \* the messages the last handler emitted, in order
  last,         \* the last handler that ran, its input and its outcome
  probe,        \* a direct call of a pure function: arguments and result
  client        \* the state of one usePlayerMovement hook and what it has sent

vars ==
  <<now, ticks, moves, nextSweep, worlds, heap, userSockets, rateLimits, conns,
    out, last, probe, client>>

\* ------------------------------------------------------------------ Map
EmptyMap == << >>
MapHas(m, k) == k \in DOMAIN m
MapSet(m, k, v) == [x \in (DOMAIN m) \cup {k} |-> IF x = k THEN v ELSE m[x]]
MapDelete(m, k) == [x \in (DOMAIN m) \ {k} |-> m[x]]

\* a world: Map userId -> player, in insertion order
WorldHas(w, u) == \E i \in 1..Len(w) : w[i].id = u
WorldGet(w, u) == w[CHOOSE i \in 1..Len(w) : w[i].id = u]
WorldSet(w, u, p) ==
  IF WorldHas(w, u)
  THEN [i \in 1..Len(w) |-> IF w[i].id = u THEN p ELSE w[i]]
  ELSE Append(w, p)
\* variant: the player is left in place
WorldDelete_Keep(w, u) == w

WorldDelete(w, u) == SelectSeq(w, LAMBDA p : p.id # u)
WorldIdsOf(w) == {w[i].id : i \in 1..Len(w)}

\* --------------------------------------------------------------- helpers
\* validateMovement(oldPos, newPos, maxSpeed = 15); oldPos is never
\* undefined at the only call site. Math.sqrt(s) <= m for integers s, m >= 0
\* is s <= m * m.
Undefined == [x |-> -1, y |-> -1, undefined |-> TRUE]
\* variant: a move of exactly maxSpeed is refused
validateMovement_Strict(oldPos, newPos, maxSpeed) ==
  IF oldPos = Undefined
  THEN TRUE
  ELSE LET dx == newPos.x - oldPos.x
           dy == newPos.y - oldPos.y
       IN dx * dx + dy * dy < maxSpeed * maxSpeed

validateMovement(oldPos, newPos, maxSpeed) ==
  IF oldPos = Undefined
  THEN TRUE
  ELSE LET dx == newPos.x - oldPos.x
           dy == newPos.y - oldPos.y
       IN dx * dx + dy * dy <= maxSpeed * maxSpeed

\* checkRateLimit(socketId): the decision, and rateLimits afterwards
RateLastUpdate(socketId) ==
  IF MapHas(rateLimits, socketId) THEN rateLimits[socketId] ELSE 0
\* variant: a move exactly UPDATE_RATE_LIMIT after the last one is refused
checkRateLimit_Inclusive(socketId) ==
  ~(now - RateLastUpdate(socketId) <= UPDATE_RATE_LIMIT)

checkRateLimit(socketId) == ~(now - RateLastUpdate(socketId) < UPDATE_RATE_LIMIT)
\* variant: the time of an admitted move is not recorded
RateLimitsAfter_Never(socketId) == rateLimits

\* variant: the time is recorded before the decision
RateLimitsAfter_Always(socketId) == MapSet(rateLimits, socketId, now)

RateLimitsAfter(socketId) ==
  IF checkRateLimit(socketId) THEN MapSet(rateLimits, socketId, now)
  ELSE rateLimits

\* the sockets in the socket.io room of worldId: joined and not disconnected
Room(worldId) ==
  {c \in Conns : conns[c].st = "connected" /\ conns[c].worldId = worldId}

Msg(to, ev, data) == [to |-> to, ev |-> ev, data |-> data]
\* emit to a set of sockets
Emit(targets, ev, data) ==
  SelectSeq([c \in Conns |-> Msg(c, ev, data)], LAMBDA m : m.to \in targets)

Op(op, c, result, update) ==
  [op |-> op, conn |-> c, result |-> result, update |-> update]
\* a connection attempt, with the handshake it carried
OpConnect(c, result, userId, worldId) ==
  [op |-> "connect", conn |-> c, result |-> result, update |-> NoUpdate,
   auth |-> [userId |-> userId, worldId |-> worldId]]
\* a player:interact, with the target it named
OpInteract(c, result, targetId) ==
  [op |-> "interact", conn |-> c, result |-> result, update |-> NoUpdate,
   targetId |-> targetId]
\* a player:emote, with the emote it carried
OpEmote(c, result, emote) ==
  [op |-> "emote", conn |-> c, result |-> result, update |-> NoUpdate,
   emote |-> emote]
\* a chat:message, with the text it carried
OpChat(c, result, message) ==
  [op |-> "chat", conn |-> c, result |-> result, update |-> NoUpdate,
   message |-> message]

\* a socket: its status and what its handlers close over (userId, worldId
\* and the reference world); a refused socket has no handlers
IdleConn == [st |-> "idle", userId |-> NoId, worldId |-> NoId, world |-> 0]
Refused == [st |-> "refused", userId |-> NoId, worldId |-> NoId, world |-> 0]
Closed == [st |-> "closed", userId |-> NoId, worldId |-> NoId, world |-> 0]

\* usePlayerMovement at its first render, with initialPosition the spawn
\* point; `interval` is movementInterval.current # null and `sent` the
\* player:move updates handed to the socket so far
HookMounted ==
  [position |-> SpawnPosition, direction |-> "down", isMoving |-> FALSE,
   interval |-> FALSE, lastUpdateTime |-> StartTime, sent |-> << >>]

InitServer ==
  /\ client = HookMounted
  /\ now = StartTime
  /\ ticks = 0
  /\ moves = 0
  /\ nextSweep = StartTime + SWEEP_PERIOD
  /\ worlds = EmptyMap
  /\ heap = [o \in Conns |-> << >>]
  /\ userSockets = EmptyMap
  /\ rateLimits = EmptyMap
  /\ conns = [c \in Conns |-> IdleConn]
  /\ out = << >>
  /\ last = Op("init", 0, "ok", NoUpdate)

NoProbe == [old |-> SpawnPosition, new |-> SpawnPosition, elapsed |-> 0,
            result |-> "none"]

Init == InitServer /\ probe = NoProbe

\* ------------------------------------------------------------ connection
\* getWorld(worldId): the registry afterwards and the reference returned;
\* a world created for socket c is the object heap[c]
getWorldRegistry(worldId, c) ==
  IF MapHas(worlds, worldId) THEN worlds ELSE MapSet(worlds, worldId, c)
getWorld(worldId, c) == getWorldRegistry(worldId, c)[worldId]

DefaultUsername(userId) == "User" \o ToString(userId)

\* variant: the timestamp is left unset
NewPlayer_Unstamped(userId, username) ==
  [id |-> userId,
   username |-> IF username # NoName THEN username ELSE DefaultUsername(userId),
   position |-> SpawnPosition,
   direction |-> "down",
   isMoving |-> FALSE,
   timestamp |-> 0]

NewPlayer(userId, username) ==
  [id |-> userId,
   username |-> IF username # NoName THEN username ELSE DefaultUsername(userId),
   position |-> SpawnPosition,
   direction |-> "down",
   isMoving |-> FALSE,
   timestamp |-> now]

\* variant: only the userId is required
InvalidHandshake_UserOnly(userId, worldId) == userId = NoId

\* !userId || !worldId
InvalidHandshake(userId, worldId) == userId = NoId \/ worldId = NoId

\* variant: no world is ever full
WorldIsFull_Never(world) == FALSE

\* variant: off by one, a full world takes one more
WorldIsFull_OffByOne(world) == Len(world) > MAX_PLAYERS_PER_WORLD

\* world.size >= MAX_PLAYERS_PER_WORLD
WorldIsFull(world) == Len(world) >= MAX_PLAYERS_PER_WORLD

\* io.on('connection'): the whole handler, for the handshake
\* socket.handshake.auth = {userId, worldId, username}
Connect(c, userId, worldId) ==
  /\ conns[c].st = "idle"
  /\ \A d \in Conns : d < c => conns[d].st # "idle"
  /\ UNCHANGED <<now, ticks, moves, nextSweep, rateLimits, probe, client>>
  /\ IF InvalidHandshake(userId, worldId)
     THEN \* socket.disconnect(); return
          /\ conns' = [conns EXCEPT ![c] = Refused]
          /\ out' = << >>
          /\ last' = OpConnect(c, "invalid", userId, worldId)
          /\ UNCHANGED <<worlds, heap, userSockets>>
     ELSE LET registry == getWorldRegistry(worldId, c)
              ref == getWorld(worldId, c)
              world == heap[ref]
              player == NewPlayer(userId, UsernameOf(userId))
          IN IF WorldIsFull(world)
             THEN \* socket.emit('error', ...); socket.disconnect(); return
                  /\ worlds' = registry
                  /\ conns' = [conns EXCEPT ![c] = Refused]
                  /\ out' = Emit({c}, "error", [message |-> "World is full"])
                  /\ last' = OpConnect(c, "full", userId, worldId)
                  /\ UNCHANGED <<heap, userSockets>>
             ELSE /\ worlds' = registry
                  /\ userSockets' = MapSet(userSockets, userId, c)
                  /\ heap' = [heap EXCEPT ![ref] = WorldSet(world, userId, player)]
                  /\ conns' = [conns EXCEPT ![c] =
                         [st |-> "connected", userId |-> userId,
                          worldId |-> worldId, world |-> ref]]
                  \* the snapshot is taken before the player is added; the
                  \* joining socket is already in the room and is skipped by
                  \* socket.to(worldId)
                  /\ out' = Emit({c}, "world:state", [players |-> world])
                            \o Emit(Room(worldId) \ {c}, "player:joined",
                                    [player |-> player])
                  /\ last' = OpConnect(c, "joined", userId, worldId)

\* ----------------------------------------------------------- player:move
\* variant: a player that has moved before keeps its position
MovedPlayer_FirstWins(player, update) ==
  [player EXCEPT !.position = IF player.position = SpawnPosition
                              THEN update.position ELSE player.position,
                 !.direction = update.direction,
                 !.isMoving = update.isMoving,
                 !.timestamp = now]

\* the four assignments to the player object
MovedPlayer(player, update) ==
  [player EXCEPT !.position = update.position,
                 !.direction = update.direction,
                 !.isMoving = update.isMoving,
                 !.timestamp = now]

\* variant: the reply echoes the proposed position
ResetReply_Proposed(c, player, update) ==
  Emit({c}, "player:position_reset", [position |-> update.position])

\* socket.emit('player:position_reset', {position: player.position})
ResetReply(c, player, update) ==
  Emit({c}, "player:position_reset", [position |-> player.position])

\* variant: io.to(worldId), which includes the sender
MovedBroadcast_ToAll(c, update) ==
  Emit(Room(conns[c].worldId), "player:moved",
       [playerId |-> conns[c].userId,
        position |-> update.position,
        direction |-> update.direction,
        isMoving |-> update.isMoving,
        timestamp |-> now])

\* socket.to(worldId).emit('player:moved', {...})
MovedBroadcast(c, update) ==
  Emit(Room(conns[c].worldId) \ {c}, "player:moved",
       [playerId |-> conns[c].userId,
        position |-> update.position,
        direction |-> update.direction,
        isMoving |-> update.isMoving,
        timestamp |-> now])

\* socket.on('player:move'): the whole handler
Move(c, update) ==
  /\ conns[c].st = "connected"
  /\ moves < MaxMoves
  /\ moves' = moves + 1
  /\ UNCHANGED <<now, ticks, nextSweep, worlds, userSockets, conns, probe, client>>
  /\ rateLimits' = RateLimitsAfter(c)
  /\ LET userId == conns[c].userId
         ref == conns[c].world
         world == heap[ref]
     IN IF ~checkRateLimit(c)
        THEN /\ out' = << >>
             /\ last' = Op("move", c, "rate_limited", update)
             /\ UNCHANGED heap
        ELSE IF ~WorldHas(world, userId)
        THEN \* 'Player not found'
             /\ out' = << >>
             /\ last' = Op("move", c, "not_found", update)
             /\ UNCHANGED heap
        ELSE LET player == WorldGet(world, userId)
             IN IF ~validateMovement(player.position, update.position, MAX_SPEED)
                THEN /\ out' = ResetReply(c, player, update)
                     /\ last' = Op("move", c, "reset", update)
                     /\ UNCHANGED heap
                ELSE /\ heap' = [heap EXCEPT ![ref] =
                               WorldSet(world, userId, MovedPlayer(player, update))]
                     /\ out' = MovedBroadcast(c, update)
                     /\ last' = Op("move", c, "moved", update)

\* ---------------------------------------------------------- chat:message
\* the texts clients send
Messages == {"hello"}

\* variant: socket.to(worldId), which skips the sender
ChatBroadcast_ToOthers(c, player, text) ==
  Emit(Room(conns[c].worldId) \ {c}, "chat:message",
       [playerId |-> conns[c].userId,
        username |-> player.username,
        message |-> text,
        timestamp |-> now])

\* io.to(worldId).emit('chat:message', message)
ChatBroadcast(c, player, text) ==
  Emit(Room(conns[c].worldId), "chat:message",
       [playerId |-> conns[c].userId,
        username |-> player.username,
        message |-> text,
        timestamp |-> now])

\* socket.on('chat:message'): the whole handler
Chat(c, text) ==
  /\ conns[c].st = "connected"
  /\ UNCHANGED <<now, ticks, moves, nextSweep, worlds, heap, userSockets,
                 rateLimits, conns, probe, client>>
  /\ LET world == heap[conns[c].world]
     IN IF ~WorldHas(world, conns[c].userId)
        THEN /\ out' = << >>
             /\ last' = OpChat(c, "not_found", text)
        ELSE /\ out' = ChatBroadcast(c, WorldGet(world, conns[c].userId), text)
             /\ last' = OpChat(c, "sent", text)

\* -------------------------------------------------------- player:interact
\* socket.emit('interaction:initiated', {...})
InitiatedReply(c, targetId, targetPlayer) ==
  Emit({c}, "interaction:initiated",
       [targetId |-> targetId, targetUsername |-> targetPlayer.username])

\* variant: the notification goes to the whole world
ReceivedNotice_ToWorld(c, targetId, player) ==
  Emit(Room(conns[c].worldId), "interaction:received",
       [fromId |-> conns[c].userId, fromUsername |-> player.username])

\* io.to(userSockets.get(data.targetId)).emit('interaction:received', {...})
ReceivedNotice(c, targetId, player) ==
  Emit({d \in Conns : /\ conns[d].st = "connected"
                      /\ MapHas(userSockets, targetId)
                      /\ userSockets[targetId] = d},
       "interaction:received",
       [fromId |-> conns[c].userId, fromUsername |-> player.username])

\* socket.on('player:interact'): the whole handler
Interact(c, targetId) ==
  /\ conns[c].st = "connected"
  /\ UNCHANGED <<now, ticks, moves, nextSweep, worlds, heap, userSockets,
                 rateLimits, conns, probe, client>>
  /\ LET world == heap[conns[c].world]
     IN IF ~WorldHas(world, conns[c].userId) \/ ~WorldHas(world, targetId)
        THEN /\ out' = << >>
             /\ last' = OpInteract(c, "not_found", targetId)
        ELSE /\ out' = InitiatedReply(c, targetId, WorldGet(world, targetId))
                       \o ReceivedNotice(c, targetId,
                                         WorldGet(world, conns[c].userId))
             /\ last' = OpInteract(c, "notified", targetId)

\* ----------------------------------------------------------- player:emote
\* the emotes clients send
Emotes == {"wave"}

\* variant: io.to(worldId), which includes the sender
Emote_ToAll(c, emote) ==
  /\ conns[c].st = "connected"
  /\ UNCHANGED <<now, ticks, moves, nextSweep, worlds, heap, userSockets,
                 rateLimits, conns, probe, client>>
  /\ IF ~WorldHas(heap[conns[c].world], conns[c].userId)
     THEN /\ out' = << >>
          /\ last' = OpEmote(c, "not_found", emote)
     ELSE /\ out' = Emit(Room(conns[c].worldId), "player:emoted",
                         [playerId |-> conns[c].userId, emote |-> emote,
                          timestamp |-> now])
          /\ last' = OpEmote(c, "sent", emote)

\* variant: the handler asks the rate limiter first, as player:move does
Emote_RateLimited(c, emote) ==
  /\ conns[c].st = "connected"
  /\ UNCHANGED <<now, ticks, moves, nextSweep, worlds, heap, userSockets,
                 conns, probe, client>>
  /\ rateLimits' = RateLimitsAfter(c)
  /\ IF ~checkRateLimit(c) \/ ~WorldHas(heap[conns[c].world], conns[c].userId)
     THEN /\ out' = << >>
          /\ last' = OpEmote(c, "not_found", emote)
     ELSE /\ out' = Emit(Room(conns[c].worldId) \ {c}, "player:emoted",
                         [playerId |-> conns[c].userId, emote |-> emote,
                          timestamp |-> now])
          /\ last' = OpEmote(c, "sent", emote)

\* socket.on('player:emote'): the whole handler
Emote(c, emote) ==
  /\ conns[c].st = "connected"
  /\ UNCHANGED <<now, ticks, moves, nextSweep, worlds, heap, userSockets,
                 rateLimits, conns, probe, client>>
  /\ IF ~WorldHas(heap[conns[c].world], conns[c].userId)
     THEN /\ out' = << >>
          /\ last' = OpEmote(c, "not_found", emote)
     ELSE /\ out' = Emit(Room(conns[c].worldId) \ {c}, "player:emoted",
                         [playerId |-> conns[c].userId, emote |-> emote,
                          timestamp |-> now])
          /\ last' = OpEmote(c, "sent", emote)

\* ------------------------------------------------------------ disconnect
\* socket.on('disconnect'): the whole handler. The socket has left its
\* rooms by the time it runs.
Disconnect(c) ==
  /\ conns[c].st = "connected"
  /\ UNCHANGED <<now, ticks, moves, nextSweep, probe, client>>
  /\ LET userId == conns[c].userId
         worldId == conns[c].worldId
         ref == conns[c].world
         world == WorldDelete(heap[ref], userId)
     IN /\ heap' = [heap EXCEPT ![ref] = world]
        /\ userSockets' = MapDelete(userSockets, userId)
        /\ rateLimits' = MapDelete(rateLimits, c)
        /\ out' = Emit(Room(worldId) \ {c}, "player:left", [playerId |-> userId])
        /\ worlds' = IF Len(world) = 0 THEN MapDelete(worlds, worldId) ELSE worlds
        /\ conns' = [conns EXCEPT ![c] = Closed]
        /\ last' = Op("disconnect", c, "ok", NoUpdate)

\* ------------------------------------------------------- periodic cleanup
IsStale(player) == now - player.timestamp > STALE_AFTER
SweptWorld(w) == SelectSeq(w, LAMBDA p : ~IsStale(p))
\* the references the registry holds
Registered == {worlds[w] : w \in DOMAIN worlds}

\* the setInterval callback: the whole sweep
Sweep ==
  /\ now >= nextSweep
  /\ nextSweep' = nextSweep + SWEEP_PERIOD
  /\ heap' = [o \in Conns |->
               IF o \in Registered THEN SweptWorld(heap[o]) ELSE heap[o]]
  /\ worlds' = [w \in {v \in DOMAIN worlds : Len(SweptWorld(heap[worlds[v]])) # 0}
                 |-> worlds[w]]
  /\ out' = << >>
  /\ last' = Op("sweep", 0, "ok", NoUpdate)
  /\ UNCHANGED <<now, ticks, moves, userSockets, rateLimits, conns, probe, client>>

\* ------------------------------------------------------------------ time
Tick(d) ==
  /\ ticks < MaxTicks
  /\ now' = now + d
  /\ ticks' = ticks + 1
  /\ out' = << >>
  /\ last' = Op("tick", 0, "ok", NoUpdate)
  /\ UNCHANGED <<moves, nextSweep, worlds, heap, userSockets, rateLimits, conns,
               probe, client>>

Next ==
  \/ \E c \in Conns, userId \in {NoId} \cup UserIds,
        worldId \in {NoId} \cup WorldIds : Connect(c, userId, worldId)
  \/ \E c \in Conns, update \in Updates : Move(c, update)
  \/ \E c \in Conns, text \in Messages : Chat(c, text)
  \/ \E c \in Conns : Disconnect(c)
  \/ Sweep
  \/ \E d \in Deltas : Tick(d)

Spec == Init /\ [][Next]_vars

\* ------------------------------------------------------- silent clients
\* Clients that connect and close but send nothing, so that nothing but the
\* join stamps a player. The interval timer keeps firing: once the callback
\* is due it runs.
SilentUserIds == 1..MaxSilentUsers

SilentNext ==
  \/ \E c \in Conns, userId \in {NoId} \cup SilentUserIds,
        worldId \in {NoId} \cup WorldIds : Connect(c, userId, worldId)
  \/ \E c \in Conns : Disconnect(c)
  \/ Sweep
  \/ \E d \in Deltas : Tick(d)

SilentSpec == Init /\ [][SilentNext]_vars /\ WF_vars(Sweep)

\* ------------------------------------------------- chat, interact, emote
\* Clients that also chat, interact and emote; they move by one payload,
\* and the clock advances by the rate limiter's interval or the reaper's.
SocialTexts == {"", "hello"}
SocialUpdates == {Upd(Near, "left", TRUE)}
SocialDeltas == {UPDATE_RATE_LIMIT, STALE_AFTER}
\* the targets a player:interact may name: a userId, or none
Targets == {NoId} \cup UserIds

SocialNext ==
  \/ \E c \in Conns, userId \in {NoId} \cup UserIds,
        worldId \in {NoId} \cup WorldIds : Connect(c, userId, worldId)
  \/ \E c \in Conns, update \in SocialUpdates : Move(c, update)
  \/ \E c \in Conns, text \in SocialTexts : Chat(c, text)
  \/ \E c \in Conns, targetId \in Targets : Interact(c, targetId)
  \/ \E c \in Conns, emote \in Emotes : Emote(c, emote)
  \/ \E c \in Conns : Disconnect(c)
  \/ Sweep
  \/ \E d \in SocialDeltas : Tick(d)

SocialSpec == Init /\ [][SocialNext]_vars

\* ------------------------------------------------------- several worlds
\* Users that are in more than one world at a time, each on a socket of its
\* own; they interact and leave.
RoomIds == 1..MaxRooms

RoomsNext ==
  \/ \E c \in Conns, userId \in UserIds, worldId \in RoomIds :
        Connect(c, userId, worldId)
  \/ \E c \in Conns, targetId \in Targets : Interact(c, targetId)
  \/ \E c \in Conns : Disconnect(c)

RoomsSpec == Init /\ [][RoomsNext]_vars

\* ------------------------------------------------------------ a long walk
\* One client walks east from the spawn point, MAX_SPEED per move and a
\* move every UPDATE_RATE_LIMIT ms. The server starts empty as in Init; the
\* counters moves and ticks start WalkSteps lower, which gives this client
\* WalkSteps more moves and clock advances than MaxMoves and MaxTicks.
\* the payload of a client that is at p: MAX_SPEED further east
WalkUpdate(p) == Upd([x |-> p.x + MAX_SPEED, y |-> p.y], "right", TRUE)

WalkInit ==
  /\ now = StartTime
  /\ ticks = MaxTicks - WalkSteps
  /\ moves = MaxMoves - WalkSteps
  /\ nextSweep = StartTime + SWEEP_PERIOD
  /\ worlds = EmptyMap
  /\ heap = [o \in Conns |-> << >>]
  /\ userSockets = EmptyMap
  /\ rateLimits = EmptyMap
  /\ conns = [c \in Conns |-> IdleConn]
  /\ out = << >>
  /\ last = Op("init", 0, "ok", NoUpdate)
  /\ probe = NoProbe
  /\ client = HookMounted

WalkNext ==
  \/ Connect(1, 1, 1)
  \/ /\ conns[1].st = "connected"
     /\ Move(1, WalkUpdate(WorldGet(heap[conns[1].world], conns[1].userId).position))
  \/ Tick(UPDATE_RATE_LIMIT)

WalkSpec == WalkInit /\ [][WalkNext]_vars

\* ------------------------------------------- validateMovement, on its own
\* arguments of a direct call: oldPos (possibly undefined), newPos, and the
\* time since the player's last update, which the function is not given
ProbePositions ==
  { SpawnPosition, Near, Nearer, Far, [x |-> 515, y |-> 500],
    [x |-> 516, y |-> 500], [x |-> 500, y |-> 485], [x |-> 489, y |-> 490] }
ProbeElapsed == {0, UPDATE_RATE_LIMIT, STALE_AFTER + 1}

ValidatorInit ==
  /\ InitServer
  /\ probe \in [old : ProbePositions \cup {Undefined}, new : ProbePositions,
                elapsed : ProbeElapsed, result : {"none"}]

Validate ==
  /\ probe.result = "none"
  /\ probe' = [probe EXCEPT !.result =
                 IF validateMovement(probe.old, probe.new, MAX_SPEED)
                 THEN "accept" ELSE "reject"]
  /\ UNCHANGED <<now, ticks, moves, nextSweep, worlds, heap, userSockets,
                 rateLimits, conns, out, last, client>>

ValidatorNext == Validate

ValidatorSpec == ValidatorInit /\ [][ValidatorNext]_vars

\* ------------------------------------------- the guide's server/index.js
\* the shorter server of the integration guide: no handshake check, no
\* capacity, no rate limit, no validator, no sweep; it keeps only `worlds`
\* the player object the guide's connection handler builds
GuidePlayer(userId) ==
  [id |-> userId,
   username |-> userId,
   position |-> SpawnPosition,
   direction |-> "down",
   isMoving |-> FALSE,
   timestamp |-> now]

\* io.on('connection'): the whole handler
GuideConnect(c, userId, worldId) ==
  /\ conns[c].st = "idle"
  /\ \A d \in Conns : d < c => conns[d].st # "idle"
  /\ UNCHANGED <<now, ticks, moves, nextSweep, userSockets, rateLimits, probe, client>>
  /\ LET ref == getWorld(worldId, c)
         world == heap[ref]
         player == GuidePlayer(userId)
     IN /\ worlds' = getWorldRegistry(worldId, c)
        /\ heap' = [heap EXCEPT ![ref] = WorldSet(world, userId, player)]
        /\ conns' = [conns EXCEPT ![c] =
               [st |-> "connected", userId |-> userId,
                worldId |-> worldId, world |-> ref]]
        /\ out' = Emit({c}, "world:state", [players |-> world])
                  \o Emit(Room(worldId) \ {c}, "player:joined",
                          [player |-> player])
        /\ last' = OpConnect(c, "joined", userId, worldId)

\* player.position = update.position; ... player.timestamp = update.timestamp
GuideMovedPlayer(player, update) ==
  [player EXCEPT !.position = update.position,
                 !.direction = update.direction,
                 !.isMoving = update.isMoving,
                 !.timestamp = update.timestamp]

\* socket.to(worldId).emit('player:moved', update): the client's own object
GuideMovedBroadcast(c, update) ==
  Emit(Room(conns[c].worldId) \ {c}, "player:moved", update)

\* socket.on('player:move'): the whole handler
GuideMove(c, update) ==
  /\ conns[c].st = "connected"
  /\ moves < MaxMoves
  /\ moves' = moves + 1
  /\ UNCHANGED <<now, ticks, nextSweep, worlds, userSockets, rateLimits, conns,
                 probe, client>>
  /\ LET userId == conns[c].userId
         ref == conns[c].world
         world == heap[ref]
     IN IF ~WorldHas(world, userId)
        THEN /\ out' = << >>
             /\ last' = Op("move", c, "not_found", update)
             /\ UNCHANGED heap
        ELSE /\ heap' = [heap EXCEPT ![ref] =
                   WorldSet(world, userId,
                            GuideMovedPlayer(WorldGet(world, userId), update))]
             /\ out' = GuideMovedBroadcast(c, update)
             /\ last' = Op("move", c, "moved", update)

\* socket.on('chat:message'): io.to(worldId).emit('chat:message', {...})
GuideChat(c, text) ==
  /\ conns[c].st = "connected"
  /\ out' = Emit(Room(conns[c].worldId), "chat:message",
                 [playerId |-> conns[c].userId, message |-> text,
                  timestamp |-> now])
  /\ last' = OpChat(c, "sent", text)
  /\ UNCHANGED <<now, ticks, moves, nextSweep, worlds, heap, userSockets,
                 rateLimits, conns, probe, client>>

\* socket.on('disconnect'): world.delete(userId) and player:left to the rest;
\* the registry keeps the world
GuideDisconnect(c) ==
  /\ conns[c].st = "connected"
  /\ UNCHANGED <<now, ticks, moves, nextSweep, worlds, userSockets, rateLimits,
                 probe, client>>
  /\ heap' = [heap EXCEPT ![conns[c].world] =
                WorldDelete(heap[conns[c].world], conns[c].userId)]
  /\ out' = Emit(Room(conns[c].worldId) \ {c}, "player:left", conns[c].userId)
  /\ conns' = [conns EXCEPT ![c] = Closed]
  /\ last' = Op("disconnect", c, "ok", NoUpdate)

GuideNext ==
  \/ \E c \in Conns, userId \in UserIds, worldId \in WorldIds :
        GuideConnect(c, userId, worldId)
  \/ \E c \in Conns, update \in Updates : GuideMove(c, update)
  \/ \E c \in Conns, text \in Messages : GuideChat(c, text)
  \/ \E c \in Conns : GuideDisconnect(c)
  \/ \E d \in {UPDATE_RATE_LIMIT} : Tick(d)

GuideSpec == Init /\ [][GuideNext]_vars

\* ------------------------------------------------- env module (resolve)
\* JavaScript's undefined and null, among string values
Unset == "<undefined>"
Null == "<null>"
\* !v
Falsy(v) == v \in {Unset, Null, ""}
\* a || b
Or(a, b) == IF Falsy(a) THEN b ELSE a
\* a ?? b
Coalesce(a, b) == IF a \in {Unset, Null} THEN b ELSE a

Char(s, i) == SubSeq(s, i, i)
From(s, i) == SubSeq(s, i, Len(s))
\* String.prototype.toLowerCase, on the letters of the schemes
Lower(ch) ==
  CASE ch = "H" -> "h" [] ch = "T" -> "t" [] ch = "P" -> "p"
    [] ch = "S" -> "s" [] ch = "W" -> "w" [] OTHER -> ch
RECURSIVE toLowerCase(_)
toLowerCase(s) ==
  IF s = "" THEN "" ELSE Lower(Char(s, 1)) \o toLowerCase(From(s, 2))

\* \d
Digit == {"0", "1", "2", "3", "4", "5", "6", "7", "8", "9"}
DigitValue(ch) ==
  CASE ch = "0" -> 0 [] ch = "1" -> 1 [] ch = "2" -> 2 [] ch = "3" -> 3
    [] ch = "4" -> 4 [] ch = "5" -> 5 [] ch = "6" -> 6 [] ch = "7" -> 7
    [] ch = "8" -> 8 [] ch = "9" -> 9
\* Number(portStr), for a string of decimal digits
RECURSIVE Number(_)
Number(portStr) ==
  IF portStr = "" THEN 0
  ELSE 10 * Number(SubSeq(portStr, 1, Len(portStr) - 1))
       + DigitValue(Char(portStr, Len(portStr)))

\* (https?|wss?) under the i flag
Schemes == {"http", "https", "ws", "wss"}
\* /^(https?|wss?):\/\//i: the length of the scheme matched, 0 for no match
SchemeLen(raw) ==
  LET fits(n) == /\ n + 3 <= Len(raw)
                 /\ toLowerCase(SubSeq(raw, 1, n)) \in Schemes
                 /\ SubSeq(raw, n + 1, n + 3) = "://"
  IN IF \E n \in 2..5 : fits(n) THEN CHOOSE n \in 2..5 : fits(n) ELSE 0

\* where a greedy [^\/:]+ that starts at i ends: the first index at or after
\* i whose character is "/" or ":", or Len(s) + 1
RECURSIVE HostEnd(_, _)
HostEnd(s, i) ==
  IF i <= Len(s) /\ Char(s, i) \notin {"/", ":"} THEN HostEnd(s, i + 1) ELSE i
\* where a greedy \d+ that starts at i ends
RECURSIVE DigitsEnd(_, _)
DigitsEnd(s, i) ==
  IF i <= Len(s) /\ Char(s, i) \in Digit THEN DigitsEnd(s, i + 1) ELSE i

NoMatch == [ok |-> FALSE, protocol |-> "", host |-> "", port |-> Unset,
            rest |-> Unset]
\* raw.match(/^(https?|wss?):\/\/([^\/:]+)(?::(\d+))?(\/.*)?$/i): the groups
\* m[1]..m[4]; an optional group that took no part is undefined
MatchUrl(raw) ==
  LET n == SchemeLen(raw)
      h == HostEnd(raw, n + 4)
      d == DigitsEnd(raw, h + 1)
      m(port, rest) == [ok |-> TRUE, protocol |-> SubSeq(raw, 1, n),
                        host |-> SubSeq(raw, n + 4, h - 1),
                        port |-> port, rest |-> rest]
  IN IF n = 0 \/ h = n + 4 THEN NoMatch
     ELSE IF h > Len(raw) THEN m(Unset, Unset)
     ELSE IF Char(raw, h) = "/" THEN m(Unset, From(raw, h))
     ELSE IF d = h + 1 THEN NoMatch
     ELSE IF d > Len(raw) THEN m(SubSeq(raw, h + 1, d - 1), Unset)
     ELSE IF Char(raw, d) = "/" THEN m(SubSeq(raw, h + 1, d - 1), From(raw, d))
     ELSE NoMatch

\* normalizeUrl(keyName, raw); the port is printed as the number it parsed to
normalizeUrl(raw) ==
  IF Falsy(raw) THEN raw
  ELSE LET m == MatchUrl(raw)
           protocol == toLowerCase(m.protocol)
           rest == Or(m.rest, "")
       IN IF ~m.ok THEN raw
          ELSE IF Falsy(m.port) THEN raw
          ELSE IF protocol \in {"https", "wss"} /\ Number(m.port) # 443
          THEN (IF protocol = "wss" THEN "ws" ELSE "http") \o "://" \o m.host
               \o ":" \o ToString(Number(m.port)) \o rest
          ELSE raw

\* getProcessEnv(name), for the value process.env holds under that name
getProcessEnv(value) == Or(value, Unset)

\* variant: the Expo extra is consulted before process.env
resolve_ExpoFirst(processValue, expoKey, extraValue, fallbackEntry, normalize) ==
  LET fromProcess == getProcessEnv(processValue)
      fromExpo == IF expoKey THEN extraValue ELSE Unset
      fallback == Coalesce(fallbackEntry, "")
      raw == Or(Or(fromExpo, fromProcess), fallback)
  IN IF Falsy(raw) THEN raw
     ELSE IF ~normalize THEN raw
     ELSE IF SchemeLen(raw) > 0 THEN Or(normalizeUrl(raw), raw)
     ELSE raw

\* resolve(envName, expoKey, normalize), for the values the three sources
\* hold: process.env[envName], extra[expoKey] and FALLBACKS[envName]
resolve(processValue, expoKey, extraValue, fallbackEntry, normalize) ==
  LET fromProcess == getProcessEnv(processValue)
      fromExpo == IF expoKey THEN extraValue ELSE Unset
      fallback == Coalesce(fallbackEntry, "")
      raw == Or(Or(fromProcess, fromExpo), fallback)
  IN IF Falsy(raw) THEN raw
     ELSE IF ~normalize THEN raw
     ELSE IF SchemeLen(raw) > 0 THEN Or(normalizeUrl(raw), raw)
     ELSE raw

\* what process.env and the Expo extra may hold under one name
ProcessValues ==
  {Unset, "", "https://p.test:8080", "wss://p.test:443/ws", "2.0.0"}
ExtraValues ==
  {Unset, "", "HTTPS://e.test:5000/api", "http://e.test", "dev"}
\* FALLBACKS[envName]: an entry of the table, or none
FallbackEntries == {Unset, "https://status.bunk-app.in:8080", "1.0.0"}

ResolveInit ==
  /\ InitServer
  /\ probe \in [process : ProcessValues, expoKey : BOOLEAN,
                extra : ExtraValues, fallback : FallbackEntries,
                normalize : BOOLEAN, result : {"none"}]

Resolve ==
  /\ probe.result = "none"
  /\ probe' = [probe EXCEPT !.result =
                 resolve(probe.process, probe.expoKey, probe.extra,
                         probe.fallback, probe.normalize)]
  /\ UNCHANGED <<now, ticks, moves, nextSweep, worlds, heap, userSockets,
                 rateLimits, conns, out, last, client>>

ResolveNext == Resolve

ResolveSpec == ResolveInit /\ [][ResolveNext]_vars

\* ------------------------------------------------ normalizeUrl, on its own
\* the parts the argument is written from: scheme "://" host port tail
UrlSchemes == {"https", "HTTPS", "wss", "http", "ws", "ftp"}
UrlHosts == {"localhost", "api.test"}
UrlPorts == {"", ":443", ":8080", ":0443", ":08080", ":"}
UrlTails == {"", "/", "/v1/x", "?q=1"}
Written(scheme, host, port, tail) == scheme \o "://" \o host \o port \o tail

NormalizeInit ==
  /\ InitServer
  /\ probe \in [scheme : UrlSchemes, host : UrlHosts, port : UrlPorts,
                tail : UrlTails, result : {"none"}, again : {"none"}]

\* normalizeUrl applied to the written URL, and once more to its result
Normalize ==
  /\ probe.result = "none"
  /\ LET raw == Written(probe.scheme, probe.host, probe.port, probe.tail)
     IN probe' = [probe EXCEPT !.result = normalizeUrl(raw),
                               !.again = normalizeUrl(normalizeUrl(raw))]
  /\ UNCHANGED <<now, ticks, moves, nextSweep, worlds, heap, userSockets,
                 rateLimits, conns, out, last, client>>

NormalizeNext == Normalize

NormalizeSpec == NormalizeInit /\ [][NormalizeNext]_vars

\* ------------------------------------------------------- src/env/env.tsx
\* the exported names, the key of Constants.expoConfig.extra each reads and
\* the literal on the right of its ??
EnvExports ==
  { [name |-> "API_URL", key |-> "apiUrl", literal |-> "http://localhost:5000"],
    [name |-> "CHAT_URL", key |-> "chatUrl", literal |-> "ws://localhost:5443"],
    [name |-> "IMAGES_URL", key |-> "imagesUrl",
     literal |-> "http://localhost:9090/s3-mock-bucket"],
    [name |-> "AUDIO_URL", key |-> "audioUrl",
     literal |-> "http://localhost:9090/s3-mock-audio-bucket"],
    [name |-> "STATUS_URL", key |-> "statusUrl",
     literal |-> "http://localhost:8080"],
    [name |-> "INVITE_URL", key |-> "inviteUrl",
     literal |-> "https://get.bunk-app.in"],
    [name |-> "PARTNER_URL", key |-> "partnerUrl",
     literal |-> "https://partner.bunk-app.in"],
    [name |-> "WEB_VERSION", key |-> "webVersion", literal |-> "dev"],
    [name |-> "TENOR_API_KEY", key |-> "tenorApiKey",
     literal |-> "LIVDSRZULELA"],
    [name |-> "NOTIFICATION_ICON_URL", key |-> "notificationIconUrl",
     literal |-> "https://bunk-app.in/assets/desktop-notification.png"],
    [name |-> "NOTIFICATION_SOUND_URL", key |-> "notificationSoundUrl",
     literal |-> "https://bunk-app.in/assets/desktop-notification.wav"] }

\* Constants.expoConfig?.extra?.[key] ?? literal
EnvExport(export, extraValue) == Coalesce(extraValue, export.literal)

\* what the build may have put in extra under one key
BuildValues ==
  {Unset, Null, "", "https://api.bunk-app.in", "http://localhost:5000"}

EnvInit ==
  /\ InitServer
  /\ probe \in [export : EnvExports, extra : BuildValues, result : {"none"}]

\* the module is evaluated: one export takes its value
EnvLoad ==
  /\ probe.result = "none"
  /\ probe' = [probe EXCEPT !.result = EnvExport(probe.export, probe.extra)]
  /\ UNCHANGED <<now, ticks, moves, nextSweep, worlds, heap, userSockets,
                 rateLimits, conns, out, last, client>>

EnvNext == EnvLoad

EnvSpec == EnvInit /\ [][EnvNext]_vars

\* ------------------------------------------------ usePlayerMovement hook
\* One client: the hook moves its player while a direction is held and sends
\* its state through socketService over socket HookSocket. The network is in
\* order and without delay: what the hook sent is handled by the server
\* before the hook does anything else.
\* the updates the hook has sent and the server has not handled yet
InFlight == Len(client.sent) - moves
Delivered == InFlight = 0
\* the hook is in use: its socket is connected, nothing is in flight and the
\* message budget is not used up
HookReady ==
  /\ conns[HookSocket].st = "connected"
  /\ Delivered
  /\ Len(client.sent) < MaxMoves

\* the setInterval callback's setPosition: one step of `speed`, clamped
Stepped(prev, direction) ==
  CASE direction = "up" ->
         [prev EXCEPT !.y = IF prev.y - HOOK_SPEED < 0 THEN 0
                            ELSE prev.y - HOOK_SPEED]
    [] direction = "down" ->
         [prev EXCEPT !.y = IF prev.y + HOOK_SPEED > WORLD_HEIGHT
                            THEN WORLD_HEIGHT ELSE prev.y + HOOK_SPEED]
    [] direction = "left" ->
         [prev EXCEPT !.x = IF prev.x - HOOK_SPEED < 0 THEN 0
                            ELSE prev.x - HOOK_SPEED]
    [] direction = "right" ->
         [prev EXCEPT !.x = IF prev.x + HOOK_SPEED > WORLD_WIDTH
                            THEN WORLD_WIDTH ELSE prev.x + HOOK_SPEED]

\* socketService.sendMovement(update): emitted only on a connected socket
sendMovement(sent, update) ==
  IF conns[HookSocket].st = "connected" THEN Append(sent, update) ELSE sent

\* the effect on [position, direction, isMoving, playerId], run at time t
\* for the hook state cl of the render that changed one of them
SendEffect(cl, t) ==
  IF t - cl.lastUpdateTime > SEND_THROTTLE
  THEN [cl EXCEPT !.lastUpdateTime = t,
                  !.sent = sendMovement(cl.sent,
                             [position |-> cl.position,
                              direction |-> cl.direction,
                              isMoving |-> cl.isMoving, timestamp |-> t])]
  ELSE cl

\* movePlayer(newDirection): the state is set, the interval (re)started, and
\* the effect runs if direction or isMoving changed
MovePlayer(newDirection) ==
  /\ HookReady
  /\ LET cl == [client EXCEPT !.direction = newDirection, !.isMoving = TRUE,
                              !.interval = TRUE]
     IN client' = IF newDirection # client.direction \/ ~client.isMoving
                  THEN SendEffect(cl, now) ELSE cl
  /\ UNCHANGED <<now, ticks, moves, nextSweep, worlds, heap, userSockets,
                 rateLimits, conns, out, last, probe>>

\* the interval fires, TICK_MS after the previous time the hook ran: the
\* position is a new object, so the effect runs
IntervalTick ==
  /\ HookReady
  /\ client.interval
  /\ now' = now + TICK_MS
  /\ client' = SendEffect([client EXCEPT !.position =
                             Stepped(client.position, client.direction)],
                          now')
  /\ UNCHANGED <<ticks, moves, nextSweep, worlds, heap, userSockets,
                 rateLimits, conns, out, last, probe>>

\* stopMoving(): isMoving is cleared and the interval with it; the effect
\* runs if isMoving changed
StopMoving ==
  /\ HookReady
  /\ LET cl == [client EXCEPT !.isMoving = FALSE, !.interval = FALSE]
     IN client' = IF client.isMoving THEN SendEffect(cl, now) ELSE cl
  /\ UNCHANGED <<now, ticks, moves, nextSweep, worlds, heap, userSockets,
                 rateLimits, conns, out, last, probe>>

\* the server handles the oldest update in flight
HookDeliver ==
  /\ InFlight > 0
  /\ Move(HookSocket, client.sent[moves + 1])

\* time passes while the player stands still
HookWaits == {TICK_MS, SEND_THROTTLE + 1}
HookWait(d) ==
  /\ ~client.interval
  /\ Delivered
  /\ Tick(d)

\* the directions the player is given
HookDirections == {"right", "down"}

HookNext ==
  \/ Connect(HookSocket, 1, 1)
  \/ \E newDirection \in HookDirections : MovePlayer(newDirection)
  \/ IntervalTick
  \/ StopMoving
  \/ HookDeliver
  \/ \E d \in HookWaits : HookWait(d)

HookSpec == Init /\ [][HookNext]_vars /\ WF_vars(HookDeliver)

\* --------------------------------------------------- useWorldState hook
\* The client's `players` Map, userId -> what it shows of that player, and
\* the four listeners that replace it.
Shown(player) ==
  [position |-> player.position, direction |-> player.direction,
   isMoving |-> player.isMoving]

\* onWorldState: a new Map filled from the list, a later entry replacing an
\* earlier one of the same id
RECURSIVE onWorldState(_, _)
onWorldState(playersMap, playerList) ==
  IF playerList = << >> THEN playersMap
  ELSE onWorldState(MapSet(playersMap, Head(playerList).id,
                           Shown(Head(playerList))),
                    Tail(playerList))

\* onPlayerMove: an update for an id that is not in the Map is ignored
onPlayerMove(prev, update) ==
  IF MapHas(prev, update.playerId)
  THEN MapSet(prev, update.playerId, Shown(update))
  ELSE prev

\* onPlayerJoin
onPlayerJoin(prev, player) == MapSet(prev, player.id, Shown(player))

\* onPlayerLeave; the payload is the id, carried here in the field playerId
onPlayerLeave(prev, playerId) == MapDelete(prev, playerId)

\* the listener registered for the event of one message
Listener(prev, msg) ==
  CASE msg.ev = "world:state" -> onWorldState(EmptyMap, msg.data.players)
    [] msg.ev = "player:moved" -> onPlayerMove(prev, msg.data)
    [] msg.ev = "player:joined" -> onPlayerJoin(prev, msg.data.player)
    [] msg.ev = "player:left" -> onPlayerLeave(prev, msg.data.playerId)
    [] OTHER -> prev

\* the messages of o delivered to socket c and applied in order
RECURSIVE Applied(_, _, _)
Applied(prev, o, c) ==
  IF o = << >> THEN prev
  ELSE Applied(IF Head(o).to = c THEN Listener(prev, Head(o)) ELSE prev,
               Tail(o), c)

\* ======================================================================
\* Properties
\* ======================================================================
Connected(c) == conns[c].st = "connected"
\* a member: a connected session whose player is in the session's own world
Live(c) == Connected(c) /\ WorldHas(heap[conns[c].world], conns[c].userId)
\* the other sessions of the room of session c
Others(c) == {d \in Conns \ {c} : Connected(d) /\ conns[d].worldId = conns[c].worldId}
\* how many messages named ev the sequence o holds for socket to
CountIn(o, to, ev) == Cardinality({i \in 1..Len(o) : o[i].to = to /\ o[i].ev = ev})
CountTo(o, to) == Cardinality({i \in 1..Len(o) : o[i].to = to})
Dist2(p, q) == (q.x - p.x) * (q.x - p.x) + (q.y - p.y) * (q.y - p.y)
Joined == last.op = "connect" /\ last.result = "joined"

\* C1: between events, a room identifier is in the registry exactly when
\* the room has at least one member.
C1_RegistryIffMember ==
  \A w \in WorldIds : MapHas(worlds, w) <=> (\E c \in Room(w) : Live(c))

\* C2: every member session of a room identifier works on the one map the
\* registry holds for that identifier.
C2_OneMapPerRoom ==
  \A c \in Conns :
    Live(c) => /\ MapHas(worlds, conns[c].worldId)
               /\ worlds[conns[c].worldId] = conns[c].world

\* C3: the world:state sent on admission holds no entry with the joining
\* player's id.
C3_SnapshotExcludesSelf ==
  Joined =>
    \A i \in 1..Len(out) :
      out[i].ev = "world:state" =>
        conns[last.conn].userId \notin WorldIdsOf(out[i].data.players)

\* C4: an admission inserts the player at the spawn position (the centre of
\* the world), not moving, facing down, stamped with the admission time; the
\* joining socket gets exactly one world:state and no player:joined, every
\* other session of the room exactly one player:joined carrying that player.
C4_AdmissionInsertsAndAnnounces ==
  Joined =>
    LET c == last.conn
        world == heap[conns[c].world]
        player == WorldGet(world, conns[c].userId)
    IN /\ WorldHas(world, conns[c].userId)
       /\ player.position.x * 2 = WORLD_WIDTH
       /\ player.position.y * 2 = WORLD_HEIGHT
       /\ player.direction = "down"
       /\ player.isMoving = FALSE
       /\ player.timestamp = now
       /\ CountIn(out, c, "world:state") = 1
       /\ CountIn(out, c, "player:joined") = 0
       /\ \A d \in Others(c) :
            /\ CountIn(out, d, "player:joined") = 1
            /\ CountTo(out, d) = 1
            /\ \A i \in 1..Len(out) :
                 out[i].to = d => out[i].data = [player |-> player]

C4_Witness == Joined /\ Cardinality(Others(last.conn)) = 2

\* C5: the world:state sent on admission is the membership of the room at
\* that moment: it holds the player of every other member session of that
\* room identifier, and every entry is the player of such a session.
C5_SnapshotIsMembership ==
  [][(last'.op = "connect" /\ last'.result = "joined") =>
      LET c == last'.conn
          members == {d \in Conns \ {c} :
                        Live(d) /\ conns[d].worldId = conns'[c].worldId}
      IN \A i \in 1..Len(out') :
           out'[i].ev = "world:state" =>
             WorldIdsOf(out'[i].data.players) = {conns[d].userId : d \in members}]_vars

\* C6: a move that passes the rate limiter and the validator sets position,
\* direction, isMoving and the timestamp of the sender's player in one step
\* and leaves the rest alone; every other session of the room gets exactly
\* one player:moved, the sender gets nothing.
C6_AcceptedMove ==
  [][(last'.op = "move" /\ last'.result = "moved") =>
      LET c == last'.conn
          u == last'.update
          ref == conns[c].world
          before == WorldGet(heap[ref], conns[c].userId)
      IN /\ Dist2(before.position, u.position) <= 15 * 15
         /\ heap' = [heap EXCEPT ![ref] =
                       WorldSet(heap[ref], conns[c].userId,
                                [id |-> before.id,
                                 username |-> before.username,
                                 position |-> u.position,
                                 direction |-> u.direction,
                                 isMoving |-> u.isMoving,
                                 timestamp |-> now'])]
         /\ CountTo(out', c) = 0
         /\ \A d \in Others(c) :
              /\ CountIn(out', d, "player:moved") = 1
              /\ CountTo(out', d) = 1
         /\ \A i \in 1..Len(out') :
              /\ out'[i].ev = "player:moved"
              /\ out'[i].data.playerId = conns[c].userId
              /\ out'[i].data.position = u.position
              /\ out'[i].data.direction = u.direction
              /\ out'[i].data.isMoving = u.isMoving]_vars

C6_Witness ==
  /\ last.op = "move" /\ last.result = "moved"
  /\ last.update = Upd(Near, "left", TRUE)
  /\ Cardinality(Others(last.conn)) = 2

\* C7: a move the validator rejects (further than maxSpeed from the current
\* position) changes no player and no room, broadcasts nothing, sends the
\* sender alone one position reset carrying its current position, and
\* leaves the connection open.
C7_RejectedMove ==
  [][(last'.op = "move" /\ last'.result = "reset") =>
      LET c == last'.conn
          before == WorldGet(heap[conns[c].world], conns[c].userId)
      IN /\ Dist2(before.position, last'.update.position) > 15 * 15
         /\ heap' = heap
         /\ worlds' = worlds
         /\ conns' = conns
         /\ conns'[c].st = "connected"
         /\ out' = <<Msg(c, "player:position_reset",
                         [position |-> before.position])>>]_vars

C7_Witness ==
  /\ last.op = "move" /\ last.result = "reset"
  /\ Others(last.conn) # {}
  /\ WorldGet(heap[conns[last.conn].world], conns[last.conn].userId).position
       # SpawnPosition

\* C8: validateMovement accepts exactly when the previous position is
\* undefined or the squared distance is at most 15 squared, whatever time
\* has passed since the last update.
C8_ValidatorDecision ==
  probe.result # "none" =>
    (probe.result = "accept" <=>
       (probe.old = Undefined \/ Dist2(probe.old, probe.new) <= 15 * 15))

C8_Witness ==
  /\ probe.result = "accept"
  /\ probe.old # Undefined
  /\ Dist2(probe.old, probe.new) = 15 * 15
  /\ probe.elapsed > STALE_AFTER

\* C9: the rate limiter admits a move exactly when the connection has no
\* admitted move yet or at least 50 ms have passed since its previously
\* admitted one; rateLimits holds the time of that one: an admitted move
\* records the current time, and nothing but the connection's teardown
\* touches the record otherwise.
C9_RateLimiter ==
  [][/\ last'.op = "move" =>
          LET c == last'.conn
              admitted == last'.result # "rate_limited"
          IN /\ admitted <=>
                  (~MapHas(rateLimits, c) \/ now - rateLimits[c] >= 50)
             /\ admitted => MapHas(rateLimits', c) /\ rateLimits'[c] = now
             /\ ~admitted => rateLimits' = rateLimits
             /\ \A d \in Conns \ {c} :
                  MapHas(rateLimits, d) =>
                    MapHas(rateLimits', d) /\ rateLimits'[d] = rateLimits[d]
     /\ last'.op # "move" =>
          \A d \in Conns :
            (MapHas(rateLimits, d) /\ Connected(d)') =>
              MapHas(rateLimits', d) /\ rateLimits'[d] = rateLimits[d]]_vars

\* the third move of the only connection, 60 ms after the start, is admitted
C9_Witness ==
  /\ last.op = "move" /\ last.conn = 1 /\ last.result = "moved"
  /\ moves = 3
  /\ now = StartTime + 60
  /\ conns[2].st = "idle"

\* C10: a move the rate limiter drops changes nothing: no player, no room,
\* no rate-limit record, and no message to anyone.
C10_DroppedMove ==
  [][(last'.op = "move" /\ last'.result = "rate_limited") =>
      /\ heap' = heap
      /\ worlds' = worlds
      /\ userSockets' = userSockets
      /\ rateLimits' = rateLimits
      /\ conns' = conns
      /\ out' = << >>]_vars

C10_Witness ==
  /\ last.op = "move" /\ last.result = "rate_limited"
  /\ last.update = Upd(Near, "left", TRUE)
  /\ Others(last.conn) # {}
  /\ WorldGet(heap[conns[last.conn].world], conns[last.conn].userId).position
       = SpawnPosition

\* the player a connected session finds under its userId in its world
PlayerOf(c) == WorldGet(heap[conns[c].world], conns[c].userId)

\* C11: an admitted move records the current time as the connection's last
\* admitted one even when the validator then rejects it, so a move the
\* validator would accept is dropped, changing nothing, when it arrives
\* less than 50 ms after a move the validator rejected.
C11_RejectedMoveStartsInterval ==
  [][last'.op = "move" =>
       LET c == last'.conn
       IN /\ last'.result = "reset" =>
               /\ MapHas(rateLimits', c)
               /\ rateLimits'[c] = now
               /\ heap' = heap
          /\ ( /\ MapHas(rateLimits, c)
               /\ now - rateLimits[c] < UPDATE_RATE_LIMIT
               /\ Live(c)
               /\ validateMovement(PlayerOf(c).position,
                                   last'.update.position, MAX_SPEED) ) =>
               /\ last'.result = "rate_limited"
               /\ heap' = heap
               /\ out' = << >>]_vars

\* a move within reach of the player is dropped 10 ms after a move that was
\* admitted later than the player's last update, hence rejected
C11_Witness ==
  /\ last.op = "move" /\ last.result = "rate_limited"
  /\ Live(last.conn)
  /\ validateMovement(PlayerOf(last.conn).position, last.update.position,
                      MAX_SPEED)
  /\ MapHas(rateLimits, last.conn)
  /\ now - rateLimits[last.conn] = 10
  /\ rateLimits[last.conn] > PlayerOf(last.conn).timestamp
  /\ \A d \in Conns \ {last.conn} : conns[d].st = "idle"

\* C12: a sweep removes from its room every player whose last update is
\* more than five minutes old and no other player, and leaves no empty room
\* in the registry.
C12_SweepRemovesExactlyStale ==
  [][last'.op = "sweep" =>
       /\ \A c \in Conns :
            Live(c) => (IsStale(PlayerOf(c)) <=> ~Live(c)')
       /\ \A w \in DOMAIN worlds' : Len(heap'[worlds'[w]]) # 0]_vars

\* the player:left messages for userId that o carries to socket d
LeftCount(o, d, userId) ==
  Cardinality({i \in 1..Len(o) : /\ o[i].to = d
                                  /\ o[i].ev = "player:left"
                                  /\ o[i].data.playerId = userId})

\* C13: a player the sweep removes is announced to the members that remain
\* in its room by exactly one player:left with its id, sent at the sweep
\* that removes it.
C13_ReapedPlayerAnnouncedOnce ==
  [][last'.op = "sweep" =>
       \A c \in Conns :
         (Live(c) /\ ~Live(c)') =>
           \A d \in Others(c) :
             Live(d)' => LeftCount(out', d, conns[c].userId) = 1]_vars

\* the player of c is stale and the sweep is due
StaleAndDue(c) == Live(c) /\ IsStale(PlayerOf(c)) /\ now >= nextSweep

\* C14: once the player of a connection that stays silent is stale and the
\* sweep is due, the stale player is eventually out of its room (by the
\* sweep, by the connection closing after all, or replaced by a newer join
\* under the same userId), and a registered room whose players are all
\* stale is eventually out of the registry unless somebody joins it.
C14_SilentPlayerReaped ==
  /\ \A c \in Conns :
       StaleAndDue(c) ~> ~(Live(c) /\ IsStale(PlayerOf(c)))
  /\ \A o \in Conns :
       ( /\ o \in Registered
         /\ now >= nextSweep
         /\ \A i \in 1..Len(heap[o]) : IsStale(heap[o][i]) )
       ~> (o \notin Registered \/ \E i \in 1..Len(heap[o]) : ~IsStale(heap[o][i]))

\* C15: when an admitted socket closes, no player with its userId is left in
\* its room, every other socket of the room gets exactly one message, the
\* player:left with that userId, the closing socket gets none, and a room
\* left empty is no longer in the registry.
C15_Teardown ==
  [][last'.op = "disconnect" =>
       LET c == last'.conn
           userId == conns[c].userId
           ref == conns[c].world
       IN /\ Connected(c)
          /\ conns'[c].st = "closed"
          /\ ~WorldHas(heap'[ref], userId)
          /\ \A d \in Others(c) :
               LeftCount(out', d, userId) = 1 /\ CountTo(out', d) = 1
          /\ Len(out') = Cardinality(Others(c))
          /\ Len(heap'[ref]) = 0 => ~MapHas(worlds', conns[c].worldId)]_vars

\* user 1 has left a room in which user 2 remains, and was told so
C15_Witness ==
  /\ last.op = "disconnect" /\ last.conn = 1
  /\ Live(2)
  /\ conns[2].userId = 2
  /\ ~WorldHas(heap[conns[2].world], 1)
  /\ out = <<Msg(2, "player:left", [playerId |-> 1])>>
  /\ MapHas(worlds, conns[2].worldId)

\* the sweep has removed the player of c: it is gone although c is still the
\* socket on record for its userId, which any close under that id would
\* have erased
Reaped(c) ==
  /\ Connected(c)
  /\ ~Live(c)
  /\ MapHas(userSockets, conns[c].userId)
  /\ userSockets[conns[c].userId] = c

\* C16: the teardown of a socket whose player the sweep has already removed
\* sends no player:left and changes neither a room nor the registry.
C16_TeardownIdempotent ==
  [][(last'.op = "disconnect" /\ Reaped(last'.conn)) =>
       /\ out' = << >>
       /\ heap' = heap
       /\ worlds' = worlds]_vars

\* C17: a connection attempt to a world that holds MAX_PLAYERS_PER_WORLD
\* players is refused: the socket gets the error message and nothing else
\* and is disconnected, nobody else gets anything, and no room, registry or
\* userSockets entry changes. Only such an attempt is refused as full.
C17_FullRoomRefused ==
  [][last'.op = "connect" =>
       LET c == last'.conn
           worldId == last'.auth.worldId
           atCapacity ==
             /\ ~InvalidHandshake(last'.auth.userId, worldId)
             /\ MapHas(worlds, worldId)
             /\ Len(heap[worlds[worldId]]) >= MAX_PLAYERS_PER_WORLD
       IN /\ atCapacity <=> last'.result = "full"
          /\ last'.result = "full" =>
               /\ out' = <<Msg(c, "error", [message |-> "World is full"])>>
               /\ conns'[c].st = "refused"
               /\ \A d \in Conns \ {c} : conns'[d] = conns[d]
               /\ heap' = heap
               /\ worlds' = worlds
               /\ userSockets' = userSockets
               /\ rateLimits' = rateLimits]_vars

\* a socket with a userId of its own was turned away from a world that
\* holds MAX_PLAYERS_PER_WORLD other players, all still there
C17_Witness ==
  /\ last.op = "connect" /\ last.result = "full"
  /\ conns[last.conn].st = "refused"
  /\ MapHas(worlds, last.auth.worldId)
  /\ Len(heap[worlds[last.auth.worldId]]) = MAX_PLAYERS_PER_WORLD
  /\ last.auth.userId \notin WorldIdsOf(heap[worlds[last.auth.worldId]])
  /\ Cardinality({d \in Conns : Live(d)}) = MAX_PLAYERS_PER_WORLD

\* C18: no world Map, registered or not, ever holds more than
\* MAX_PLAYERS_PER_WORLD players.
C18_RoomWithinCapacity ==
  \A o \in Conns : Len(heap[o]) <= MAX_PLAYERS_PER_WORLD

\* a join has just filled a world, and a userId that is not in it exists
C18_Witness ==
  /\ Joined
  /\ Len(heap[conns[last.conn].world]) = MAX_PLAYERS_PER_WORLD
  /\ SilentUserIds \ WorldIdsOf(heap[conns[last.conn].world]) # {}
  /\ \E d \in Conns : conns[d].st = "idle"

\* C19: a connection attempt whose userId or worldId is empty is refused
\* and leaves no trace: the socket is disconnected, no room is created, no
\* player, userSockets or rateLimits entry is made, and nothing is sent to
\* anyone. No other attempt is refused this way.
C19_EmptyHandshakeRefused ==
  [][last'.op = "connect" =>
       LET c == last'.conn
           empty == last'.auth.userId = NoId \/ last'.auth.worldId = NoId
       IN /\ empty <=> last'.result = "invalid"
          /\ empty =>
               /\ conns'[c].st = "refused"
               /\ \A d \in Conns \ {c} : conns'[d] = conns[d]
               /\ worlds' = worlds
               /\ heap' = heap
               /\ userSockets' = userSockets
               /\ rateLimits' = rateLimits
               /\ out' = << >>]_vars

\* a handshake with a userId but no worldId was refused while another
\* socket was in a room
C19_Witness ==
  /\ last.op = "connect" /\ last.result = "invalid"
  /\ last.auth.userId # NoId /\ last.auth.worldId = NoId
  /\ conns[last.conn].st = "refused"
  /\ \E d \in Conns : Live(d)
  /\ DOMAIN worlds = WorldIds

\* the sessions whose player is in the room of c, c included
Members(c) ==
  {d \in Conns : Live(d) /\ conns[d].world = conns[c].world}

\* C20: a non-empty chat message from a socket whose player is in its room
\* reaches every member of that room, the sender included, as exactly one
\* chat:message carrying the sender's userId and username, the text and
\* the server's time; it changes no state.
C20_ChatDelivered ==
  [][(last'.op = "chat" /\ Live(last'.conn) /\ last'.message # "") =>
       LET c == last'.conn
           message == [playerId |-> conns[c].userId,
                       username |-> PlayerOf(c).username,
                       message |-> last'.message,
                       timestamp |-> now]
       IN /\ last'.result = "sent"
          /\ c \in Members(c)
          /\ \A d \in Members(c) :
               /\ CountTo(out', d) = 1
               /\ \E i \in 1..Len(out') :
                    out'[i] = Msg(d, "chat:message", message)
          /\ heap' = heap
          /\ worlds' = worlds
          /\ conns' = conns]_vars

\* user 2 has said hello in a room it shares with user 1; each got one copy
C20_Witness ==
  /\ last.op = "chat" /\ last.result = "sent" /\ last.message = "hello"
  /\ conns[last.conn].userId = 2
  /\ Cardinality(Members(last.conn)) = 2
  /\ Len(out) = 2
  /\ \A i \in 1..Len(out) :
       /\ out[i].ev = "chat:message"
       /\ out[i].data.playerId = 2
       /\ out[i].data.username = UsernameOf(2)

\* C21: an empty chat message is dropped: no chat:message or anything else
\* is delivered to anyone and no state changes.
C21_EmptyChatDropped ==
  [][(last'.op = "chat" /\ last'.message = "") =>
       /\ out' = << >>
       /\ heap' = heap
       /\ worlds' = worlds
       /\ userSockets' = userSockets
       /\ rateLimits' = rateLimits
       /\ conns' = conns]_vars

\* no two sockets are in the same world Map under the same userId
UniqueInRoom ==
  \A c, d \in Conns :
    (Live(c) /\ Live(d) /\ c # d /\ conns[c].world = conns[d].world) =>
      conns[c].userId # conns[d].userId

\* how many messages named ev socket d gets in o
CountEv(o, d, ev) ==
  Cardinality({i \in 1..Len(o) : o[i].to = d /\ o[i].ev = ev})

\* C22: a player:interact from a member whose target is not in the
\* sender's room sends nothing and changes nothing; when the target is in
\* the room, the sender gets one interaction:initiated, the socket of the
\* target in that room gets one interaction:received, and no other socket
\* gets anything. Ids are unique within each room.
C22_InteractDirect ==
  [][(last'.op = "interact" /\ Live(last'.conn) /\ UniqueInRoom) =>
       LET c == last'.conn
           targetId == last'.targetId
           targetConns == {d \in Members(c) : conns[d].userId = targetId}
       IN /\ heap' = heap /\ worlds' = worlds /\ conns' = conns
          /\ targetConns = {} => out' = << >>
          /\ targetConns # {} =>
               /\ CountEv(out', c, "interaction:initiated") = 1
               /\ \A d \in targetConns :
                    CountEv(out', d, "interaction:received") = 1
               /\ \A i \in 1..Len(out') :
                    \/ out'[i].to = c /\ out'[i].ev = "interaction:initiated"
                    \/ out'[i].to \in targetConns
                         /\ out'[i].ev = "interaction:received"]_vars

\* C23: an emote from a socket whose player is in its room reaches every
\* other member of the room as exactly one player:emoted with the sender's
\* userId and the emote, and the sender gets nothing; an emote from a socket
\* whose player is no longer in its room reaches nobody. No state changes.
C23_EmoteToOthers ==
  [][last'.op = "emote" =>
       LET c == last'.conn
           message == [playerId |-> conns[c].userId,
                       emote |-> last'.emote,
                       timestamp |-> now]
       IN /\ heap' = heap /\ worlds' = worlds /\ conns' = conns
          /\ Live(c) =>
               /\ last'.result = "sent"
               /\ CountTo(out', c) = 0
               /\ \A d \in Members(c) \ {c} :
                    /\ CountTo(out', d) = 1
                    /\ \E i \in 1..Len(out') :
                         out'[i] = Msg(d, "player:emoted", message)
          /\ ~Live(c) => out' = << >>]_vars

\* user 1 has waved in a room it shares with user 2, who got the one message
C23_Witness ==
  /\ last.op = "emote" /\ last.result = "sent"
  /\ conns[last.conn].userId = 1
  /\ Cardinality(Members(last.conn)) = 2
  /\ \E d \in Members(last.conn) :
       /\ conns[d].userId = 2
       /\ out = <<Msg(d, "player:emoted",
                      [playerId |-> 1, emote |-> "wave", timestamp |-> now])>>

\* C24: chat, interact and emote never consult or change rateLimits: from
\* a socket whose player is in its room they are processed even when a move
\* at the same instant would be dropped, they leave every rate-limit
\* record as it was, and so the limiter's decision on the socket's next
\* move is what it was before.
C24_SocialNotRateLimited ==
  [][last'.op \in {"chat", "interact", "emote"} =>
       LET c == last'.conn
       IN /\ rateLimits' = rateLimits
          /\ now' = now
          /\ \A d \in Conns : checkRateLimit(d)' = checkRateLimit(d)
          /\ Live(c) =>
               /\ last'.op = "chat" => last'.result = "sent"
               /\ last'.op = "emote" => last'.result = "sent"
               /\ last'.op = "interact" =>
                    (last'.result = "notified" <=>
                       WorldHas(heap[conns[c].world], last'.targetId))]_vars

\* an emote went out to another member at an instant when the limiter
\* would drop a move of the same socket
C24_Witness ==
  /\ last.op = "emote" /\ last.result = "sent"
  /\ Len(out) = 1
  /\ MapHas(rateLimits, last.conn)
  /\ rateLimits[last.conn] = now
  /\ ~checkRateLimit(last.conn)

\* C25: while a player stays in a world Map its timestamp never decreases,
\* and it changes only in a step that is an accepted move of a socket bound
\* to that player in that Map.
C25_TimestampOwnMovesOnly ==
  [][\A o \in Conns, u \in UserIds :
       (WorldHas(heap[o], u) /\ WorldHas(heap'[o], u)) =>
         LET t == WorldGet(heap[o], u).timestamp
             tt == WorldGet(heap'[o], u).timestamp
         IN /\ tt >= t
            /\ tt # t =>
                 /\ last'.op = "move" /\ last'.result = "moved"
                 /\ conns[last'.conn].userId = u
                 /\ conns[last'.conn].world = o]_vars

\* C26: the position of every player in every world lies within
\* [0, WORLD_WIDTH] x [0, WORLD_HEIGHT].
C26_PositionWithinWorld ==
  \A o \in Conns : \A i \in 1..Len(heap[o]) :
    /\ heap[o][i].position.x >= 0 /\ heap[o][i].position.x <= WORLD_WIDTH
    /\ heap[o][i].position.y >= 0 /\ heap[o][i].position.y <= WORLD_HEIGHT

\* C27: a connected socket whose player was in its room before a sweep
\* either still has its player in the room after it or is no longer in the
\* socket.io room, so that the sockets a room's broadcasts reach are the
\* sockets whose player is a member.
C27_SessionIffMember ==
  [][last'.op = "sweep" =>
       \A c \in Conns :
         (Live(c) /\ c \in Room(conns[c].worldId)') => Live(c)']_vars

\* C28: at no time are two connected sockets bound to the same userId in
\* the same world.
C28_OneSessionPerPlayer ==
  \A c \in Conns : \A d \in Conns \ {c} :
    (Connected(c) /\ Connected(d) /\ conns[c].worldId = conns[d].worldId) =>
      conns[c].userId # conns[d].userId

\* C29: the close of a socket whose player the sweep had removed leaves
\* every other connected socket, its player and its membership as they
\* were, and leaves every world that still has players in the registry.
C29_TeardownIsolated ==
  [][(last'.op = "disconnect" /\ Reaped(last'.conn)) =>
       /\ \A d \in Conns \ {last'.conn} :
            /\ conns'[d] = conns[d]
            /\ Live(d) => (Live(d)' /\ PlayerOf(d)' = PlayerOf(d))
       /\ \A w \in DOMAIN worlds :
            Len(heap'[worlds[w]]) > 0 =>
              (MapHas(worlds', w) /\ worlds'[w] = worlds[w])]_vars

C31_ServerTimestamp ==
  [][(last'.op = "move" /\ last'.result = "moved") =>
       LET c == last'.conn
           sender == WorldGet(heap'[conns[c].world], conns[c].userId)
       IN \A i \in 1..Len(out') :
            out'[i].ev = "player:moved" =>
              /\ out'[i].data.timestamp = now
              /\ out'[i].data.timestamp = sender.timestamp]_vars

\* C32: a configuration value comes from process.env if that holds a
\* non-empty value, otherwise from the Expo extra if that holds one, otherwise
\* from the built-in fallback; the sources after the first non-empty one have
\* no influence, and the result is that value, normalized when asked.
C32_ResolvePrecedence ==
  probe.result # "none" =>
    LET extra == IF probe.expoKey THEN probe.extra ELSE Unset
        chosen == IF probe.process \notin {Unset, ""} THEN probe.process
                  ELSE IF extra \notin {Unset, ""} THEN extra
                  ELSE IF probe.fallback # Unset THEN probe.fallback
                  ELSE ""
    IN probe.result = IF probe.normalize THEN normalizeUrl(chosen) ELSE chosen

\* process.env holds an empty string, the extra a URL on a plain port and the
\* table a fallback: the extra wins and is downgraded
C32_Witness ==
  /\ probe.process = "" /\ probe.expoKey /\ probe.normalize
  /\ probe.extra = "HTTPS://e.test:5000/api"
  /\ probe.fallback = "https://status.bunk-app.in:8080"
  /\ probe.result = "http://e.test:5000/api"

\* C33: normalizeUrl turns a URL whose scheme is https or wss and which
\* names a port other than 443 into the same URL under http or ws, with the
\* same host, port number and remainder; it returns every other argument as
\* it was given; and applying it to its own result changes nothing.
C33_NormalizeUrl ==
  probe.result # "none" =>
    LET raw == Written(probe.scheme, probe.host, probe.port, probe.tail)
        secure == probe.scheme \in {"https", "HTTPS", "wss"}
        explicit == probe.port \notin {"", ":"}
        port == Number(From(probe.port, 2))
        plain == IF probe.scheme = "wss" THEN "ws" ELSE "http"
    IN /\ probe.result =
            IF secure /\ explicit /\ port # 443
            THEN Written(plain, probe.host, ":" \o ToString(port), probe.tail)
            ELSE raw
       /\ probe.again = probe.result

\* an address on the local machine: scheme://localhost, with or without port
IsLocalhost(url) == MatchUrl(url).ok /\ MatchUrl(url).host = "localhost"
\* the exports that hold a URL
UrlExports == {e \in EnvExports : e.name \notin {"WEB_VERSION", "TENOR_API_KEY"}}

\* C34: env.tsx names no production domain: an exported URL whose Expo extra
\* is absent is a localhost address.
C34_LocalhostFallbacks ==
  (probe.result # "none" /\ probe.export \in UrlExports
     /\ probe.extra \in {Unset, Null}) =>
    IsLocalhost(probe.result)

\* C35: two positions the hook sends one after the other are at most
\* MAX_SPEED apart, and the server resets none of the hook's moves.
C35_HookWithinSpeed ==
  /\ \A i \in 2..Len(client.sent) :
       Dist2(client.sent[i - 1].position, client.sent[i].position)
         <= MAX_SPEED * MAX_SPEED
  /\ (last.op = "move" /\ last.conn = HookSocket) => last.result # "reset"

\* the room the registry holds for the world of c, without the player of c,
\* as a client would show it
ServerView(c) ==
  LET room == IF MapHas(worlds, conns[c].worldId)
              THEN heap[worlds[conns[c].worldId]] ELSE << >>
  IN [id \in WorldIdsOf(room) \ {conns[c].userId} |-> Shown(WorldGet(room, id))]

\* C36: a client whose player Map agrees with the server's room before a
\* handler runs agrees with it again once the messages of that handler are
\* applied: the Map of a member holds the other members of its room with
\* their positions, directions and isMoving flags, from its own admission
\* on. Ids are unique within each room.
C36_ClientViewConverges ==
  [][\A c \in Conns :
       (/\ UniqueInRoom /\ UniqueInRoom'
        /\ Live(c)'
        /\ Live(c) \/ conns[c].st = "idle") =>
         Applied(IF Live(c) THEN ServerView(c) ELSE EmptyMap, out', c)
           = ServerView(c)']_vars

\* the hook's player has been stopped where the server has it: the interval
\* is cleared, the socket is open and its player is in the room
StoppedInPlace ==
  /\ ~client.isMoving /\ ~client.interval
  /\ Live(HookSocket)
  /\ PlayerOf(HookSocket).position = client.position

\* C37: once the hook's player is stopped, with its connection open, the
\* server's player comes to show isMoving = FALSE at the position where the
\* client stopped, unless the player is set in motion again first.
C37_StopReachesServer ==
  StoppedInPlace ~>
    \/ client.isMoving
    \/ /\ Live(HookSocket)
       /\ ~PlayerOf(HookSocket).isMoving
       /\ PlayerOf(HookSocket).position = client.position

====
